---- MODULE Spec2Model ----
(***************************************************************************)
(* Model of the migration engine: the postgres Driver                      *)
(* (driver/postgres/postgres.go), the in-memory mockDriver (mock.go), the  *)
(* Driver interface, and the Planner / Executor that drive a Driver.       *)
(***************************************************************************)
EXTENDS Integers, Sequences, FiniteSets, TLC

\* ------------------------------------------------------------------ bounds
\* Migration IDs handed to a Driver are 1..NumDriverIDs; catalog IDs are
\* 1..NumIDs.  Integer order stands for the lexical order of the ID strings.
NumDriverIDs == 2
NumIDs == 3
\* Greatest number of statements in one statement group.
MaxStmts == 3

DriverIDs == 1..NumDriverIDs
IDs == 1..NumIDs

\* m.Up / m.Down
Up == "Up"
Down == "Down"
Directions == {Up, Down}

\* ------------------------------------------------------------- statements
\* A statement is its text.  eff names the change the text makes to the store
\* when the store executes it; bad says that the store rejects the text.  The
\* fixtures of the repository write such a text with the substring "error"
\* ("CREATE TABLE test_table3 (some error"), which is what mockDriver looks for.
Effects == {"t1", "t2"}
BadStatement == [eff |-> "none", bad |-> TRUE]
EmptyStatement == [eff |-> "none", bad |-> FALSE]
StatementSet == {[eff |-> e, bad |-> FALSE] : e \in Effects} \cup {BadStatement}

\* Sequences of pairwise distinct statements, of length at most MaxStmts.
StatementLists ==
  UNION {{s \in [1..n -> StatementSet] : \A i, j \in 1..n : i # j => s[i] # s[j]}
         : n \in 0..MaxStmts}

\* *parser.ParsedMigration: nil is the nil pointer.
ParsedMigration(stmts, tx) == [nil |-> FALSE, Statements |-> stmts, UseTransaction |-> tx]
NilParsedMigration == [nil |-> TRUE, Statements |-> <<>>, UseTransaction |-> FALSE]
ParsedMigrations == {ParsedMigration(s, tx) : s \in StatementLists, tx \in BOOLEAN}

\* *PlannedMigration: the embedded Migration (ID, Up, Down) and the Direction.
PlannedMigration(id, up, down, dir) == [ID |-> id, Up |-> up, Down |-> down, Direction |-> dir]

\* ------------------------------------------------------------------ errors
ErrNil == "nil"
ErrBegin == "begin: context canceled"
ErrStatement == "error executing statement"
ErrVersions == "error updating migration versions"
ErrCommit == "commit: context canceled"
ErrRollback == "error rolling back"
ErrMock == "error executing migration"
\* a nil pointer dereference: the call does not return
Panic == "panic: nil pointer dereference"

VARIABLES
  store,             \* postgres: the effects of the statements the store holds
  schema_migration,  \* postgres: the rows of table schema_migration (version)
  pgPc,              \* caller of the postgres Driver: "idle" | "returned"
  pgCall,            \* the Migrate call that returned last, and what it met
  pgPre,             \* store and schema_migration when that call began
  pgOut,             \* what that call did and returned
  pgLastOk,          \* per ID, the direction of the last Migrate that returned nil
  applied,           \* mockDriver.applied
  planIn,            \* Planner alone: the inputs of Plan
  planOut,           \* Planner alone: what Plan returned for planIn
  execRun,           \* Executor: the catalog and target of the run, and its plan
  execPc,            \* Executor: "idle" | "running" | "done" | "crashed"
  execCalls,         \* Executor: the results of the Driver.Migrate calls made, in order
  execErr,           \* Executor: the error Execute returned
  execPre,           \* mockDriver.applied when the run began
  trip,              \* postgres: the last Up-then-Down round trip of a caller
  mockCall,          \* mockDriver: the Migrate call that returned last
  pgTable,           \* postgres: table schema_migration exists
  pgConn,            \* postgres: per connection, who holds it
  newOut             \* the constructor call that returned last

pgVars == <<store, schema_migration, pgPc, pgCall, pgPre, pgOut, pgLastOk>>
planVars == <<planIn, planOut>>
execVars == <<applied, execRun, execPc, execCalls, execErr, execPre>>
newVars == <<pgTable, pgConn, newOut>>
auxVars == <<trip, mockCall, newVars>>

\* ------------------------------------------------------- context (ctx)
\* ctx.cancelAt is the number of calls taking ctx that complete before ctx is
\* cancelled; the call numbered op (from 1) meets a cancelled ctx, and fails
\* without effect, iff op > cancelAt.  rollbackFails: tx.Rollback returns an
\* error (the connection was lost); the server then aborts the transaction.
ctxDone(ctx, op) == op > ctx.cancelAt
NeverCancelled == MaxStmts + 3
Contexts == [cancelAt : 0..NeverCancelled, rollbackFails : BOOLEAN]

\* ------------------------------------------------------ postgres Driver
\* lines 100-106: the statement group and the version statement by direction
migrationStatements(migration) ==
  IF migration.Direction = Up THEN migration.Up
  ELSE IF migration.Direction = Down THEN migration.Down
  ELSE NilParsedMigration

\* Mutant of insertVersion: the version is inserted whatever the direction.
insertVersionAlways(migration) == "INSERT"

insertVersion(migration) ==
  IF migration.Direction = Up THEN "INSERT"
  ELSE IF migration.Direction = Down THEN "DELETE"
  ELSE ""

\* Exec of one statement of the group, the op-th call taking ctx.
ExecFails(statement, ctx, op) == statement.bad \/ ctxDone(ctx, op)

\* for _, statement := range migrationStatements.Statements { Exec ... }
\* base is the number of ctx calls made before the loop.  failed is the index of
\* the statement whose Exec returned an error (0: none), done the indexes of the
\* statements executed.
\* Mutant of RunStatements: a failing Exec is skipped and the loop goes on.
RECURSIVE RunStatementsNoStop(_, _, _, _, _)
RunStatementsNoStop(stmts, i, ctx, base, done) ==
  IF i > Len(stmts) THEN [failed |-> 0, done |-> done]
  ELSE IF ExecFails(stmts[i], ctx, base + i)
       THEN LET rest == RunStatementsNoStop(stmts, i + 1, ctx, base, done)
            IN [failed |-> i, done |-> rest.done]
       ELSE RunStatementsNoStop(stmts, i + 1, ctx, base, Append(done, i))

RECURSIVE RunStatements(_, _, _, _, _)
RunStatements(stmts, i, ctx, base, done) ==
  IF i > Len(stmts) THEN [failed |-> 0, done |-> done]
  ELSE IF ExecFails(stmts[i], ctx, base + i) THEN [failed |-> i, done |-> done]
  ELSE RunStatements(stmts, i + 1, ctx, base, Append(done, i))

EffectsOf(stmts, done) == {stmts[done[k]].eff : k \in 1..Len(done)}

\* Exec(ctx, insertVersion, migration.ID) on table rows: INSERT violates the
\* primary key when the version is already a row; DELETE of an absent row
\* deletes nothing and is no error.
VersionExecFails(rows, sql, id, ctx, op) ==
  ctxDone(ctx, op) \/ (sql = "INSERT" /\ id \in rows)

VersionExec(rows, sql, id) ==
  IF sql = "INSERT" THEN rows \cup {id}
  ELSE IF sql = "DELETE" THEN rows \ {id}
  ELSE rows

\* lines 114-122: the deferred function.  err is the variable the closure
\* captured: the err declared by `tx, err := driver.db.Begin(ctx)` on line 109,
\* inside the if block, which shadows the named result of Migrate.  Returns the
\* closure's err afterwards and whether the transaction was committed.
\* Mutant of DeferredCommitOrRollback: the transaction is committed whatever
\* err holds (the rollback branch is missing).
DeferredCommitAlways(err, ctx, commitOp) ==
  IF ctxDone(ctx, commitOp) /\ err = ErrNil
  THEN [err |-> ErrCommit, committed |-> FALSE]
  ELSE [err |-> err, committed |-> TRUE]

\* Mutant of DeferredCommitOrRollback: tx.Commit is given context.Background(),
\* as tx.Rollback is, so a cancelled ctx no longer stops the commit.
DeferredCommitBackground(err, ctx, commitOp) ==
  IF err # ErrNil
  THEN [err |-> IF ctx.rollbackFails THEN ErrRollback ELSE err, committed |-> FALSE]
  ELSE [err |-> ErrNil, committed |-> TRUE]

DeferredCommitOrRollback(err, ctx, commitOp) ==
  IF err # ErrNil
  THEN [err |-> IF ctx.rollbackFails THEN ErrRollback ELSE err, committed |-> FALSE]
  ELSE IF ctxDone(ctx, commitOp)
       THEN [err |-> ErrCommit, committed |-> FALSE]
       ELSE [err |-> ErrNil, committed |-> TRUE]

\* The value Migrate hands to its caller once the deferred function has run:
\* the named result, which `return <expr>` set (lines 126, 131) and which the
\* bare return of line 143 leaves nil; the closure assigned only its own err.
NamedResult(returned, deferred) == returned

\* lines 108-132: the UseTransaction branch
MigrateInTransaction(db, migration, ctx) ==
  LET ms == migrationStatements(migration)
      n == Len(ms.Statements)
      none == [ret |-> ErrBegin, store |-> db.store, schema_migration |-> db.schema_migration,
               attempted |-> <<>>, versionAttempted |-> FALSE, began |-> FALSE,
               commitAttempted |-> FALSE, committed |-> FALSE, err |-> ErrBegin]
  IN IF ctxDone(ctx, 1) THEN none
     ELSE
       LET run == RunStatements(ms.Statements, 1, ctx, 1, <<>>)
           verFails == VersionExecFails(db.schema_migration, insertVersion(migration),
                                        migration.ID, ctx, n + 2)
           \* the value of the return statement reached, and the closure's err then
           returned == IF run.failed # 0 THEN ErrStatement
                       ELSE IF verFails THEN ErrVersions ELSE ErrNil
           inner == IF run.failed # 0 THEN "exec: statement"
                    ELSE IF verFails THEN "exec: version" ELSE ErrNil
           d == DeferredCommitOrRollback(inner, ctx, n + 3)
       IN [ret |-> NamedResult(returned, d),
           store |-> IF d.committed THEN db.store \cup EffectsOf(ms.Statements, run.done)
                     ELSE db.store,
           schema_migration |->
              IF d.committed
              THEN VersionExec(db.schema_migration, insertVersion(migration), migration.ID)
              ELSE db.schema_migration,
           attempted |-> IF run.failed # 0 THEN Append(run.done, run.failed) ELSE run.done,
           versionAttempted |-> run.failed = 0,
           began |-> TRUE,
           commitAttempted |-> inner = ErrNil,
           committed |-> d.committed,
           err |-> d.err]

\* Mutant of MigrateWithoutTransaction: a failed version update is returned as
\* the error of a statement.
MigrateWithoutTransactionOneError(db, migration, ctx) ==
  LET ms == migrationStatements(migration)
      n == Len(ms.Statements)
      run == RunStatements(ms.Statements, 1, ctx, 0, <<>>)
      verFails == VersionExecFails(db.schema_migration, insertVersion(migration),
                                   migration.ID, ctx, n + 1)
      ret == IF run.failed # 0 \/ verFails THEN ErrStatement ELSE ErrNil
  IN [ret |-> ret,
      store |-> db.store \cup EffectsOf(ms.Statements, run.done),
      schema_migration |->
         IF ret = ErrNil
         THEN VersionExec(db.schema_migration, insertVersion(migration), migration.ID)
         ELSE db.schema_migration,
      attempted |-> IF run.failed # 0 THEN Append(run.done, run.failed) ELSE run.done,
      versionAttempted |-> run.failed = 0,
      began |-> FALSE,
      commitAttempted |-> FALSE,
      committed |-> FALSE,
      err |-> ret]

\* lines 133-142: the branch without a transaction; every Exec commits alone
MigrateWithoutTransaction(db, migration, ctx) ==
  LET ms == migrationStatements(migration)
      n == Len(ms.Statements)
      run == RunStatements(ms.Statements, 1, ctx, 0, <<>>)
      verFails == VersionExecFails(db.schema_migration, insertVersion(migration),
                                   migration.ID, ctx, n + 1)
      ret == IF run.failed # 0 THEN ErrStatement
             ELSE IF verFails THEN ErrVersions ELSE ErrNil
  IN [ret |-> ret,
      store |-> db.store \cup EffectsOf(ms.Statements, run.done),
      schema_migration |->
         IF ret = ErrNil
         THEN VersionExec(db.schema_migration, insertVersion(migration), migration.ID)
         ELSE db.schema_migration,
      attempted |-> IF run.failed # 0 THEN Append(run.done, run.failed) ELSE run.done,
      versionAttempted |-> run.failed = 0,
      began |-> FALSE,
      commitAttempted |-> FALSE,
      committed |-> FALSE,
      err |-> ret]

\* lines 94-144: func (driver *Driver) Migrate(ctx, migration) (err error).
\* db is the store behind driver.db.  A nil statement group is dereferenced on
\* line 108.
Driver_Migrate(db, migration, ctx) ==
  LET ms == migrationStatements(migration)
  IN IF ms.nil
     THEN [ret |-> Panic, store |-> db.store, schema_migration |-> db.schema_migration,
           attempted |-> <<>>, versionAttempted |-> FALSE, began |-> FALSE,
           commitAttempted |-> FALSE, committed |-> FALSE, err |-> Panic]
     ELSE IF ms.UseTransaction THEN MigrateInTransaction(db, migration, ctx)
     ELSE MigrateWithoutTransaction(db, migration, ctx)

\* lines 147-169: SELECT version FROM schema_migration ORDER BY version DESC
RECURSIVE SortDesc(_)
SortDesc(S) ==
  IF S = {} THEN <<>>
  ELSE LET top == CHOOSE x \in S : \A y \in S : y <= x
       IN <<top>> \o SortDesc(S \ {top})

\* Mutant of Driver_Versions: ORDER BY version, ascending.
Driver_VersionsAscending(rows) ==
  LET d == SortDesc(rows) IN [i \in 1..Len(d) |-> d[Len(d) + 1 - i]]

Driver_Versions(rows) == SortDesc(rows)

\* ------------------------------------------------- calls on the postgres Driver
NoMigration == PlannedMigration(0, NilParsedMigration, NilParsedMigration, Up)
NoContext == [cancelAt |-> 0, rollbackFails |-> FALSE]
NoCall == [migration |-> NoMigration, ctx |-> NoContext]
NoDb == [store |-> {}, schema_migration |-> {}]
NoOut == [ret |-> ErrNil, attempted |-> <<>>, versionAttempted |-> FALSE, began |-> FALSE,
          commitAttempted |-> FALSE, committed |-> FALSE, err |-> ErrNil]

\* The migrations a caller hands to Migrate: the group of the direction is any
\* group; Down may be absent (an irreversible migration), Up never is.
OtherUp == ParsedMigration(<<BadStatement>>, FALSE)
PlannedMigrations ==
  {PlannedMigration(id, g, NilParsedMigration, Up) : id \in DriverIDs, g \in ParsedMigrations}
  \cup {PlannedMigration(id, OtherUp, g, Down)
        : id \in DriverIDs, g \in ParsedMigrations \cup {NilParsedMigration}}

\* The contexts that differ for this call.  With a transaction it makes at most
\* Len + 3 calls taking ctx (Begin, the statements, the version statement,
\* Commit) and may call Rollback; without one it makes at most Len + 1 and never
\* calls Rollback.  A cancelAt of that number is a ctx never cancelled in the call.
ContextsOf(migration) ==
  LET ms == migrationStatements(migration)
  IN {c \in Contexts :
        IF ms.UseTransaction
        THEN c.cancelAt <= Len(ms.Statements) + 3
        ELSE c.cancelAt <= Len(ms.Statements) + 1 /\ ~c.rollbackFails}

PgInit ==
  /\ store = {}
  /\ schema_migration = {}
  /\ pgPc = "idle"
  /\ pgCall = NoCall
  /\ pgPre = NoDb
  /\ pgOut = NoOut
  /\ pgLastOk = [id \in DriverIDs |-> "none"]

\* One call of Driver.Migrate, from entry to return (or panic): what it does to
\* the store and what the caller has of it.
PgMigrateCall(migration, ctx) ==
  /\ pgPc = "idle"
  /\ LET db == [store |-> store, schema_migration |-> schema_migration]
         out == Driver_Migrate(db, migration, ctx)
     IN /\ store' = out.store
        /\ schema_migration' = out.schema_migration
        /\ pgCall' = [migration |-> migration, ctx |-> ctx]
        /\ pgPre' = db
        /\ pgOut' = [ret |-> out.ret, attempted |-> out.attempted,
                     versionAttempted |-> out.versionAttempted, began |-> out.began,
                     commitAttempted |-> out.commitAttempted, committed |-> out.committed,
                     err |-> out.err]
        /\ pgLastOk' = IF out.ret = ErrNil
                       THEN [pgLastOk EXCEPT ![migration.ID] = migration.Direction]
                       ELSE pgLastOk
  /\ pgPc' = "returned"

PgMigrate(migration, ctx) ==
  /\ PgMigrateCall(migration, ctx)
  /\ UNCHANGED <<planVars, execVars, auxVars>>

\* The caller has looked at the result (`if err != nil { ... }`) and goes on.
PgContinueCall ==
  /\ pgPc = "returned"
  /\ pgOut.ret # Panic
  /\ pgPc' = "idle"
  /\ pgCall' = NoCall
  /\ pgPre' = NoDb
  /\ pgOut' = NoOut
  /\ UNCHANGED <<store, schema_migration, pgLastOk>>

PgContinue ==
  /\ PgContinueCall
  /\ UNCHANGED <<planVars, execVars, auxVars>>


\* ---------------------------------------------------------------- mockDriver
\* mock.go lines 20-26
mockMigrationStatements(migration) ==
  IF migration.Direction = Up THEN migration.Up ELSE migration.Down

\* lines 28-32: the first statement of the group, "" when there is none
errStatement(ms) ==
  IF Len(ms.Statements) > 0 THEN ms.Statements[1] ELSE EmptyStatement

\* line 34: strings.Contains(errStatement, "error")
ContainsError(statement) == statement.bad

\* lines 38-45: the index (from 0) of the first entry equal to id, or -1
versionIndex(list, id) ==
  IF \E i \in 1..Len(list) : list[i] = id
  THEN (CHOOSE i \in 1..Len(list) : list[i] = id /\ \A j \in 1..(i - 1) : list[j] # id) - 1
  ELSE -1

\* Mutant of mockDriver_Migrate: the version is recorded before the statement
\* is looked at, so a failing Up leaves its ID in the list.
mockDriver_MigrateRecordsFirst(list, migration) ==
  LET ms == mockMigrationStatements(migration)
      vi == versionIndex(list, migration.ID)
      next == IF migration.Direction = Up
              THEN IF vi = -1 THEN Append(list, migration.ID) ELSE list
              ELSE IF vi # -1
                   THEN SubSeq(list, 1, vi) \o SubSeq(list, vi + 2, Len(list))
                   ELSE list
  IN IF ms.nil THEN [ret |-> Panic, applied |-> list]
     ELSE IF ContainsError(errStatement(ms)) THEN [ret |-> ErrMock, applied |-> next]
     ELSE [ret |-> ErrNil, applied |-> next]

\* Mutant of mockDriver_Migrate: Up returns nil without recording the ID.
mockDriver_MigrateForgetsUp(list, migration) ==
  LET ms == mockMigrationStatements(migration)
      vi == versionIndex(list, migration.ID)
  IN IF ms.nil THEN [ret |-> Panic, applied |-> list]
     ELSE IF ContainsError(errStatement(ms)) THEN [ret |-> ErrMock, applied |-> list]
     ELSE IF migration.Direction = Up THEN [ret |-> ErrNil, applied |-> list]
     ELSE IF vi # -1
          THEN [ret |-> ErrNil,
                applied |-> SubSeq(list, 1, vi) \o SubSeq(list, vi + 2, Len(list))]
          ELSE [ret |-> ErrNil, applied |-> list]

\* Mutant of mockDriver_Migrate: Down fills the hole with the last entry
\* instead of closing it, so the entries left change their order.
mockDriver_MigrateSwapRemove(list, migration) ==
  LET ms == mockMigrationStatements(migration)
      vi == versionIndex(list, migration.ID)
      n == Len(list)
  IN IF ms.nil THEN [ret |-> Panic, applied |-> list]
     ELSE IF ContainsError(errStatement(ms)) THEN [ret |-> ErrMock, applied |-> list]
     ELSE IF migration.Direction = Up
          THEN IF vi = -1
               THEN [ret |-> ErrNil, applied |-> Append(list, migration.ID)]
               ELSE [ret |-> ErrNil, applied |-> list]
          ELSE IF vi # -1
               THEN [ret |-> ErrNil,
                     applied |-> SubSeq([list EXCEPT ![vi + 1] = list[n]], 1, n - 1)]
               ELSE [ret |-> ErrNil, applied |-> list]

\* Mutant of mockDriver_Migrate: Up appends the ID without looking for it.
mockDriver_MigrateAppendsAlways(list, migration) ==
  LET ms == mockMigrationStatements(migration)
      vi == versionIndex(list, migration.ID)
  IN IF ms.nil THEN [ret |-> Panic, applied |-> list]
     ELSE IF ContainsError(errStatement(ms)) THEN [ret |-> ErrMock, applied |-> list]
     ELSE IF migration.Direction = Up
          THEN [ret |-> ErrNil, applied |-> Append(list, migration.ID)]
          ELSE IF vi # -1
               THEN [ret |-> ErrNil,
                     applied |-> SubSeq(list, 1, vi) \o SubSeq(list, vi + 2, Len(list))]
               ELSE [ret |-> ErrNil, applied |-> list]

\* lines 19-58: func (m *mockDriver) Migrate.  list is m.applied.  A nil
\* statement group is dereferenced on line 30.
mockDriver_Migrate(list, migration) ==
  LET ms == mockMigrationStatements(migration)
      vi == versionIndex(list, migration.ID)
  IN IF ms.nil THEN [ret |-> Panic, applied |-> list]
     ELSE IF ContainsError(errStatement(ms)) THEN [ret |-> ErrMock, applied |-> list]
     ELSE IF migration.Direction = Up
          THEN IF vi = -1
               THEN [ret |-> ErrNil, applied |-> Append(list, migration.ID)]
               ELSE [ret |-> ErrNil, applied |-> list]
          ELSE IF vi # -1
               THEN [ret |-> ErrNil,
                     applied |-> SubSeq(list, 1, vi) \o SubSeq(list, vi + 2, Len(list))]
               ELSE [ret |-> ErrNil, applied |-> list]

\* lines 60-62
mockDriver_Versions(list) == list

\* ------------------------------------------------------------------ Planner
\* Migration: {ID, Up, Down}; Down may be absent.
Migration(id, up, down) == [ID |-> id, Up |-> up, Down |-> down]
Planned(m, dir) == PlannedMigration(m.ID, m.Up, m.Down, dir)

ErrUnknownMigration == "UnknownMigration"
ErrNoRollbackAvailable == "NoRollbackAvailable"

\* the targets of Plan
ApplyPending == [kind |-> "apply", n |-> 0]
Rollback(n) == [kind |-> "rollback", n |-> n]

\* An empty Down block: no Down group, or one without statements.
HasDown(m) == ~m.Down.nil /\ Len(m.Down.Statements) > 0

Range(seq) == {seq[i] : i \in 1..Len(seq)}
CatalogIDs(catalog) == {catalog[i].ID : i \in 1..Len(catalog)}

\* Mutant of SortCatalog: the catalog is walked in the order it was given.
SortCatalogUnsorted(catalog) == catalog

\* step 1: the catalog sorted by ID, ascending
RECURSIVE SortCatalog(_)
SortCatalog(catalog) ==
  IF catalog = <<>> THEN <<>>
  ELSE LET i == CHOOSE i \in 1..Len(catalog) :
                  \A j \in 1..Len(catalog) : catalog[i].ID <= catalog[j].ID
       IN <<catalog[i]>> \o
          SortCatalog(SubSeq(catalog, 1, i - 1) \o SubSeq(catalog, i + 1, Len(catalog)))

\* step 2: walk the sorted catalog; an ID not in appliedIDs is pending
RECURSIVE PendingUp(_, _)
PendingUp(sorted, appliedIDs) ==
  IF sorted = <<>> THEN <<>>
  ELSE (IF sorted[1].ID \in appliedIDs THEN <<>> ELSE <<Planned(sorted[1], Up)>>)
       \o PendingUp(Tail(sorted), appliedIDs)

\* Mutant of SelectRollback: n is not counted down, every applied migration
\* is taken.
RECURSIVE SelectRollbackAll(_, _, _)
SelectRollbackAll(catalog, descending, n) ==
  IF n = 0 \/ descending = <<>> THEN <<>>
  ELSE IF \E i \in 1..Len(catalog) : catalog[i].ID = descending[1]
       THEN <<CHOOSE m \in Range(catalog) : m.ID = descending[1]>>
            \o SelectRollbackAll(catalog, Tail(descending), n)
       ELSE SelectRollbackAll(catalog, Tail(descending), n)

\* step 3: walk appliedIDs in descending order, taking the first n that exist
\* in the catalog
RECURSIVE SelectRollback(_, _, _)
SelectRollback(catalog, descending, n) ==
  IF n = 0 \/ descending = <<>> THEN <<>>
  ELSE IF \E i \in 1..Len(catalog) : catalog[i].ID = descending[1]
       THEN <<CHOOSE m \in Range(catalog) : m.ID = descending[1]>>
            \o SelectRollback(catalog, Tail(descending), n - 1)
       ELSE SelectRollback(catalog, Tail(descending), n)

\* Mutant of Plan: an applied ID absent from the catalog is ignored.
PlanIgnoresDrift(catalog, appliedIDs, target) ==
  LET sorted == SortCatalog(catalog)
  IN IF target.kind = "apply"
     THEN [err |-> ErrNil, plan |-> PendingUp(sorted, appliedIDs)]
     ELSE LET sel == SelectRollback(sorted, SortDesc(appliedIDs), target.n)
          IN IF \E i \in 1..Len(sel) : ~HasDown(sel[i])
             THEN [err |-> ErrNoRollbackAvailable, plan |-> <<>>]
             ELSE [err |-> ErrNil, plan |-> [i \in 1..Len(sel) |-> Planned(sel[i], Down)]]

\* Mutant of Plan: only the first selected migration is checked for a Down block.
PlanChecksFirstDown(catalog, appliedIDs, target) ==
  LET sorted == SortCatalog(catalog)
  IN IF appliedIDs \ CatalogIDs(catalog) # {}
     THEN [err |-> ErrUnknownMigration, plan |-> <<>>]
     ELSE IF target.kind = "apply"
          THEN [err |-> ErrNil, plan |-> PendingUp(sorted, appliedIDs)]
          ELSE LET sel == SelectRollback(sorted, SortDesc(appliedIDs), target.n)
               IN IF sel # <<>> /\ ~HasDown(sel[1])
                  THEN [err |-> ErrNoRollbackAvailable, plan |-> <<>>]
                  ELSE [err |-> ErrNil, plan |-> [i \in 1..Len(sel) |-> Planned(sel[i], Down)]]

\* Plan(catalog, appliedIDs, target): UnknownMigration halts planning (step 4);
\* a rollback whose selection holds a migration without Down fails with
\* NoRollbackAvailable and plans nothing.
Plan(catalog, appliedIDs, target) ==
  LET sorted == SortCatalog(catalog)
  IN IF appliedIDs \ CatalogIDs(catalog) # {}
     THEN [err |-> ErrUnknownMigration, plan |-> <<>>]
     ELSE IF target.kind = "apply"
          THEN [err |-> ErrNil, plan |-> PendingUp(sorted, appliedIDs)]
          ELSE LET sel == SelectRollback(sorted, SortDesc(appliedIDs), target.n)
               IN IF \E i \in 1..Len(sel) : ~HasDown(sel[i])
                  THEN [err |-> ErrNoRollbackAvailable, plan |-> <<>>]
                  ELSE [err |-> ErrNil, plan |-> [i \in 1..Len(sel) |-> Planned(sel[i], Down)]]

\* ----------------------------------------------------------------- Executor
\* The error Execute returns: the failing migration's ID, its direction and
\* the count of items completed before it.
NoExecErr == [failed |-> FALSE, ID |-> 0, Direction |-> Up, count |-> 0]
ExecError(p, count) == [failed |-> TRUE, ID |-> p.ID, Direction |-> p.Direction, count |-> count]

\* --------------------------------------------------------- Planner, alone
Targets == {ApplyPending} \cup {Rollback(n) : n \in 0..NumIDs}

\* For planning only the ID and the presence of Down matter.
GoodGroup == ParsedMigration(<<[eff |-> "t1", bad |-> FALSE]>>, FALSE)
BadGroup == ParsedMigration(<<BadStatement>>, FALSE)
PlanMigrations ==
  {Migration(id, GoodGroup, d) : id \in IDs, d \in {GoodGroup, NilParsedMigration}}

\* catalogs: sequences of migrations with pairwise distinct IDs, in any order
PlanCatalogs ==
  UNION {{c \in [1..n -> PlanMigrations] : \A i, j \in 1..n : i # j => c[i].ID # c[j].ID}
         : n \in 0..NumIDs}

NoPlanIn == [catalog |-> <<>>, appliedIDs |-> {}, target |-> ApplyPending, set |-> FALSE]
NoPlanOut == [err |-> ErrNil, plan |-> <<>>, set |-> FALSE]

PlanCall ==
  /\ planIn.set /\ ~planOut.set
  /\ LET r == Plan(planIn.catalog, planIn.appliedIDs, planIn.target)
     IN planOut' = [err |-> r.err, plan |-> r.plan, set |-> TRUE]
  /\ UNCHANGED <<planIn, pgVars, execVars, auxVars>>

\* ------------------------------------------- Executor on the mockDriver
\* The catalogs of a run: per ID at most one migration, handed over in
\* descending ID order.  Up succeeds or fails; Down succeeds, fails or is absent.
ExecMigrations ==
  {Migration(id, g[1], g[2]) :
     id \in IDs,
     g \in {<<GoodGroup, GoodGroup>>, <<BadGroup, GoodGroup>>,
            <<GoodGroup, BadGroup>>, <<GoodGroup, NilParsedMigration>>}}

ExecCatalogs ==
  UNION {{c \in [1..n -> ExecMigrations] : \A i, j \in 1..n : i < j => c[i].ID > c[j].ID}
         : n \in 0..NumIDs}

NoRun == [catalog |-> <<>>, target |-> ApplyPending, err |-> ErrNil, plan |-> <<>>]

\* The tool is started: Plan from the catalog and Driver.Versions(); a plan
\* that fails is returned to the caller and nothing is executed.
RunStart(catalog, target) ==
  /\ execPc = "idle"
  /\ LET r == Plan(catalog, Range(mockDriver_Versions(applied)), target)
     IN /\ execRun' = [catalog |-> catalog, target |-> target, err |-> r.err, plan |-> r.plan]
        /\ execPc' = IF r.err = ErrNil THEN "running" ELSE "done"
  /\ execPre' = applied
  /\ execCalls' = <<>>
  /\ execErr' = NoExecErr
  /\ UNCHANGED <<applied, pgVars, planVars, auxVars>>

\* Execute, one turn of its loop: Driver.Migrate on the next item; the first
\* error ends the loop with the item's ID, direction and the count completed.
ExecStep ==
  /\ execPc = "running"
  /\ Len(execCalls) < Len(execRun.plan)
  /\ LET i == Len(execCalls) + 1
         out == mockDriver_Migrate(applied, execRun.plan[i])
     IN /\ applied' = out.applied
        /\ execCalls' = Append(execCalls,
                               [index |-> i, item |-> execRun.plan[i], ret |-> out.ret,
                                had |-> execRun.plan[i].ID \in Range(mockDriver_Versions(applied))])
        /\ execErr' = IF out.ret \notin {ErrNil, Panic}
                      THEN ExecError(execRun.plan[i], Len(execCalls))
                      ELSE execErr
        /\ execPc' = IF out.ret = Panic THEN "crashed"
                     ELSE IF out.ret # ErrNil THEN "done"
                     ELSE "running"
  /\ UNCHANGED <<execRun, execPre, pgVars, planVars, auxVars>>

\* Execute: the loop is over, every item completed.
ExecReturn ==
  /\ execPc = "running"
  /\ Len(execCalls) = Len(execRun.plan)
  /\ execPc' = "done"
  /\ UNCHANGED <<applied, execRun, execCalls, execErr, execPre, pgVars, planVars, auxVars>>

\* The caller has the result of the run; the tool may be started again.
RunContinue ==
  /\ execPc = "done"
  /\ execPc' = "idle"
  /\ execRun' = NoRun
  /\ execCalls' = <<>>
  /\ execErr' = NoExecErr
  /\ execPre' = <<>>
  /\ UNCHANGED <<applied, pgVars, planVars, auxVars>>

ExecInit ==
  /\ applied = <<>>
  /\ execRun = NoRun
  /\ execPc = "idle"
  /\ execCalls = <<>>
  /\ execErr = NoExecErr
  /\ execPre = <<>>

\* ------------------------------------------- a caller's Up-then-Down round trip
NoTrip == [set |-> FALSE, migration |-> NoMigration, before |-> <<>>, after |-> <<>>,
           upRet |-> ErrNil, downRet |-> ErrNil, downCommitted |-> FALSE]

\* The migrations of a round trip: Up and Down are both present and hold a
\* statement; either may ask for a transaction.
TripGroups == {ParsedMigration(GoodGroup.Statements, tx) : tx \in BOOLEAN}
TripMigrations ==
  {PlannedMigration(id, u, d, Up) : id \in DriverIDs, u \in TripGroups, d \in TripGroups}

\* The caller asks Versions(), calls Migrate with Direction Up and then, on the
\* same migration, Migrate with Direction Down, and asks Versions() again.
PgUpThenDown(migration, ctxUp, ctxDown) ==
  /\ pgPc = "idle"
  /\ ~trip.set
  /\ LET db == [store |-> store, schema_migration |-> schema_migration]
         up == Driver_Migrate(db, [migration EXCEPT !.Direction = Up], ctxUp)
         mid == [store |-> up.store, schema_migration |-> up.schema_migration]
         down == Driver_Migrate(mid, [migration EXCEPT !.Direction = Down], ctxDown)
         okUp == IF up.ret = ErrNil THEN [pgLastOk EXCEPT ![migration.ID] = Up] ELSE pgLastOk
     IN /\ store' = down.store
        /\ schema_migration' = down.schema_migration
        /\ pgLastOk' = IF down.ret = ErrNil THEN [okUp EXCEPT ![migration.ID] = Down] ELSE okUp
        /\ trip' = [set |-> TRUE, migration |-> migration,
                    before |-> Driver_Versions(db.schema_migration),
                    after |-> Driver_Versions(down.schema_migration),
                    upRet |-> up.ret, downRet |-> down.ret,
                    downCommitted |-> down.committed]
  /\ UNCHANGED <<pgPc, pgCall, pgPre, pgOut, planVars, execVars, mockCall, newVars>>

\* The caller has compared the two Versions() results and goes on.
TripContinue ==
  /\ trip.set
  /\ trip' = NoTrip
  /\ UNCHANGED <<pgVars, planVars, execVars, mockCall, newVars>>

\* ------------------------------- the same calls on the postgres Driver and the mock
NoMockCall == [set |-> FALSE, migration |-> NoMigration, pre |-> <<>>, ret |-> ErrNil]

\* One call of mockDriver.Migrate, from entry to return (or panic).
MockMigrateCall(migration) ==
  /\ ~mockCall.set
  /\ LET out == mockDriver_Migrate(applied, migration)
     IN /\ applied' = out.applied
        /\ mockCall' = [set |-> TRUE, migration |-> migration, pre |-> applied,
                        ret |-> out.ret]

MockContinueCall ==
  /\ mockCall.set
  /\ mockCall.ret # Panic
  /\ mockCall' = NoMockCall
  /\ UNCHANGED applied

\* The caller has looked at the result and goes on.
MockContinue ==
  /\ MockContinueCall
  /\ UNCHANGED <<pgVars, planVars, execRun, execPc, execCalls, execErr, execPre, trip, newVars>>

\* The groups handed to both drivers: at most two statements, each the valid
\* statement of the test or an invalid one.
JointLists ==
  {l \in StatementLists :
     /\ Len(l) <= Len(<<GoodGroup, BadGroup>>)
     /\ \A i \in 1..Len(l) : l[i] \in {GoodGroup.Statements[1], BadStatement}}
JointMigrations ==
  {m \in PlannedMigrations :
     LET ms == migrationStatements(m) IN ms.nil \/ ms.Statements \in JointLists}

\* Calls on the mockDriver alone: any ID, either direction, Down absent or not.
MockMigrations ==
  {PlannedMigration(id, ParsedMigration(l, FALSE), d, dir) :
     id \in IDs, l \in JointLists, d \in {GoodGroup, BadGroup, NilParsedMigration},
     dir \in Directions}

MockMigrate(migration) ==
  /\ MockMigrateCall(migration)
  /\ UNCHANGED <<pgVars, planVars, execRun, execPc, execCalls, execErr, execPre, trip, newVars>>

\* The mockDriver ignores ctx; of the contexts of the postgres call those whose
\* tx.Rollback succeeds are enough to tell the two drivers apart.
JointContexts(migration) == {c \in ContextsOf(migration) : ~c.rollbackFails}

\* A test that drives a Driver drives either implementation: the same Migrate
\* call is made on the postgres Driver and on the mockDriver.
BothMigrate(migration, ctx) ==
  /\ PgMigrateCall(migration, ctx)
  /\ MockMigrateCall(migration)
  /\ UNCHANGED <<planVars, execRun, execPc, execCalls, execErr, execPre, trip, newVars>>

BothContinue ==
  /\ PgContinueCall
  /\ MockContinueCall
  /\ UNCHANGED <<planVars, execRun, execPc, execCalls, execErr, execPre, trip, newVars>>

\* ------------------------------------------------ construction of the postgres Driver
MaxConns == 2
Conns == 1..MaxConns

ErrConnect == "pgx.Connect failed"
ErrPing == "Ping failed"
ErrExec == "Exec failed"
ErrTableExists == "relation already exists"

\* The calls New makes with ctx, in order.
NewSteps == <<"Connect", "Ping", "Exec">>
NewContexts == {c \in Contexts : c.cancelAt <= Len(NewSteps) /\ ~c.rollbackFails}

\* Mutant of ensureVersionTableExists: CREATE TABLE without IF NOT EXISTS.
ensureVersionTableCreate(table, ctx, op) ==
  IF ctxDone(ctx, op) THEN [err |-> ErrExec, table |-> table]
  ELSE IF table THEN [err |-> ErrTableExists, table |-> table]
  ELSE [err |-> ErrNil, table |-> TRUE]

\* lines 88-91: CREATE TABLE IF NOT EXISTS schema_migration (...).  table tells
\* whether the table exists; its rows are not touched.
ensureVersionTableExists(table, ctx, op) ==
  IF ctxDone(ctx, op) THEN [err |-> ErrExec, table |-> table]
  ELSE [err |-> ErrNil, table |-> TRUE]

\* lines 52-65: Ping, then the Driver and its version table.  base is the number
\* of calls already made with ctx.  driver tells whether a Driver is returned.
newFromQueryable(table, ctx, base) ==
  IF ctxDone(ctx, base + 1) THEN [ret |-> ErrPing, table |-> table, driver |-> FALSE]
  ELSE LET e == ensureVersionTableExists(table, ctx, base + 2)
       IN [ret |-> e.err, table |-> e.table, driver |-> e.err = ErrNil]

\* lines 45-47
postgres_NewFromConn(table, ctx) == newFromQueryable(table, ctx, 0)

\* lines 34-40: connected tells whether pgx.Connect opened a connection.
postgres_New(table, ctx) ==
  IF ctxDone(ctx, 1)
  THEN [ret |-> ErrConnect, table |-> table, driver |-> FALSE, connected |-> FALSE]
  ELSE LET r == newFromQueryable(table, ctx, 1)
       IN [ret |-> r.ret, table |-> r.table, driver |-> r.driver, connected |-> TRUE]

NoNew == [set |-> FALSE, op |-> "", conn |-> 0, ctx |-> NoContext, ret |-> ErrNil,
          tableBefore |-> FALSE, rowsBefore |-> {}]

\* New(ctx, dsn): the connection New opens is held by the Driver it returns;
\* when New returns nil and an error nobody holds it ("lost").
New(conn, ctx) ==
  /\ pgConn[conn] = "free"
  /\ LET r == postgres_New(pgTable, ctx)
     IN /\ pgTable' = r.table
        /\ pgConn' = [pgConn EXCEPT ![conn] = IF ~r.connected THEN "free"
                                              ELSE IF r.driver THEN "driver"
                                              ELSE "lost"]
        /\ newOut' = [set |-> TRUE, op |-> "New", conn |-> conn, ctx |-> ctx, ret |-> r.ret,
                      tableBefore |-> pgTable, rowsBefore |-> schema_migration]
  /\ UNCHANGED <<store, schema_migration, pgPc, pgCall, pgPre, pgOut, pgLastOk,
                 planVars, execVars, trip, mockCall>>

\* The caller opens a connection of its own (test lines 49-52).
CallerConnect(conn) ==
  /\ pgConn[conn] = "free"
  /\ pgConn' = [pgConn EXCEPT ![conn] = "caller"]
  /\ UNCHANGED <<pgVars, planVars, execVars, trip, mockCall, pgTable, newOut>>

\* NewFromConn(ctx, conn) on a connection the caller holds: the caller keeps
\* its handle whatever is returned; the Driver returned holds it too.
NewFromConn(conn, ctx) ==
  /\ pgConn[conn] \in {"caller", "shared"}
  /\ LET r == postgres_NewFromConn(pgTable, ctx)
     IN /\ pgTable' = r.table
        /\ pgConn' = [pgConn EXCEPT ![conn] = IF r.driver THEN "shared" ELSE @]
        /\ newOut' = [set |-> TRUE, op |-> "NewFromConn", conn |-> conn, ctx |-> ctx,
                      ret |-> r.ret, tableBefore |-> pgTable, rowsBefore |-> schema_migration]
  /\ UNCHANGED <<store, schema_migration, pgPc, pgCall, pgPre, pgOut, pgLastOk,
                 planVars, execVars, trip, mockCall>>

\* lines 84-86: Driver.Close closes the Driver's connection; the caller closes
\* a connection it holds (test lines 53-60).
Close(conn) ==
  /\ pgConn[conn] \in {"driver", "shared", "caller"}
  /\ pgConn' = [pgConn EXCEPT ![conn] = "free"]
  /\ UNCHANGED <<pgVars, planVars, execVars, trip, mockCall, pgTable, newOut>>

\* The state after New has returned a Driver on a store without the table.
AuxInit ==
  /\ trip = NoTrip
  /\ mockCall = NoMockCall
  /\ pgTable = TRUE
  /\ pgConn = [c \in Conns |-> IF c = 1 THEN "driver" ELSE "free"]
  /\ newOut = NoNew

\* ------------------------------------------------------------ specifications
vars == <<pgVars, planVars, execVars, auxVars>>

Init ==
  /\ PgInit
  /\ ExecInit
  /\ AuxInit
  /\ planIn = NoPlanIn
  /\ planOut = NoPlanOut

PgNext ==
  \/ \E migration \in PlannedMigrations : \E ctx \in ContextsOf(migration) :
        PgMigrate(migration, ctx)
  \/ PgContinue

\* the postgres Driver under any sequence of Migrate calls
SpecPg == Init /\ [][PgNext]_vars

\* Plan on every catalog, applied set and target within the bounds
PlanInit ==
  /\ PgInit
  /\ ExecInit
  /\ AuxInit
  /\ planIn \in {[catalog |-> c, appliedIDs |-> a, target |-> t, set |-> TRUE] :
                   c \in PlanCatalogs, a \in SUBSET IDs, t \in Targets}
  /\ planOut = NoPlanOut

SpecPlan == PlanInit /\ [][PlanCall]_vars

ExecNext ==
  \/ \E catalog \in ExecCatalogs : \E target \in Targets : RunStart(catalog, target)
  \/ ExecStep
  \/ ExecReturn
  \/ RunContinue

\* runs of the tool (Plan, then Execute) on the mockDriver, one after another
SpecExec == Init /\ [][ExecNext]_vars

TripNext ==
  \/ \E migration \in TripMigrations :
        \E ctxUp \in ContextsOf([migration EXCEPT !.Direction = Up]) :
          \E ctxDown \in ContextsOf([migration EXCEPT !.Direction = Down]) :
            PgUpThenDown(migration, ctxUp, ctxDown)
  \/ TripContinue

BothNext ==
  \/ \E migration \in JointMigrations : \E ctx \in JointContexts(migration) :
        BothMigrate(migration, ctx)
  \/ BothContinue

\* the postgres Driver and the mockDriver under the same sequence of Migrate calls
SpecBoth == Init /\ [][BothNext]_vars

\* A store before any Driver is constructed: the table is absent, or it is there
\* from earlier runs with any rows.
NewInit ==
  /\ pgTable \in BOOLEAN
  /\ schema_migration \in (IF pgTable THEN SUBSET DriverIDs ELSE {{}})
  /\ pgConn = [c \in Conns |-> "free"]
  /\ newOut = NoNew
  /\ store = {}
  /\ pgPc = "idle" /\ pgCall = NoCall /\ pgPre = NoDb /\ pgOut = NoOut
  /\ pgLastOk = [id \in DriverIDs |-> "none"]
  /\ ExecInit
  /\ planIn = NoPlanIn /\ planOut = NoPlanOut
  /\ trip = NoTrip /\ mockCall = NoMockCall

NewNext ==
  \/ \E conn \in Conns : \E ctx \in NewContexts : New(conn, ctx)
  \/ \E conn \in Conns : CallerConnect(conn)
  \/ \E conn \in Conns : \E ctx \in NewContexts : NewFromConn(conn, ctx)
  \/ \E conn \in Conns : Close(conn)

\* constructions and closes of the postgres Driver, one after another
SpecNew == NewInit /\ [][NewNext]_vars

MockNext ==
  \/ \E migration \in MockMigrations : MockMigrate(migration)
  \/ MockContinue

\* the mockDriver under any sequence of Migrate calls
SpecMock == Init /\ [][MockNext]_vars

\* round trips on the postgres Driver, one after another
SpecTrip == Init /\ [][TripNext]_vars

\* ----------------------------------------------------------------- claims
\* What the last call of the postgres Driver was given.
pgGroup == migrationStatements(pgCall.migration)
pgReturned == pgPc = "returned" /\ pgOut.ret # Panic
pgFailed == pgReturned /\ pgOut.ret # ErrNil
\* the number of calls taking ctx made before the statement loop
pgBase == IF pgGroup.UseTransaction THEN 1 ELSE 0
\* statement i of the group is one whose Exec fails in this call
pgStatementFails(i) == ExecFails(pgGroup.Statements[i], pgCall.ctx, pgBase + i)
pgFirstFailing(k) ==
  /\ k \in 1..Len(pgGroup.Statements)
  /\ pgStatementFails(k)
  /\ \A j \in 1..(k - 1) : ~pgStatementFails(j)
pgEffects(k) == {pgGroup.Statements[j].eff : j \in 1..k}

\* C1: a Migrate of a UseTransaction=true group that returns an error leaves
\* the store without any effect of the group's statements and the version table
\* exactly as it was before the call, wherever the failure was (Begin, any
\* statement, the version update).
C1_TransactionAtomic ==
  (pgFailed /\ pgGroup.UseTransaction)
    => /\ store = pgPre.store
       /\ schema_migration = pgPre.schema_migration

\* C1 witness: the second statement of a transactional group failed after the
\* first one, whose effect the store did not hold before, had been executed.
C1_Witness ==
  /\ pgFailed /\ pgGroup.UseTransaction
  /\ pgOut.attempted = <<1, 2>>
  /\ pgGroup.Statements[1].eff \notin pgPre.store
  /\ pgPre.schema_migration # {}
  /\ store = pgPre.store

\* C2: in a Migrate of a UseTransaction=false group whose first failing
\* statement is statement k of n, statements 1..k-1 have been applied, statements
\* k+1..n were never attempted, the version table is unchanged and Migrate
\* returns an error.
C2_PartialFailure ==
  (pgReturned /\ ~pgGroup.UseTransaction)
    => \A k \in 1..Len(pgGroup.Statements) :
         pgFirstFailing(k)
           => /\ store = pgPre.store \cup pgEffects(k - 1)
              /\ pgOut.attempted = [j \in 1..k |-> j]
              /\ ~pgOut.versionAttempted
              /\ schema_migration = pgPre.schema_migration
              /\ pgOut.ret = ErrStatement

\* C2 witness: statements [s1 ok, s2 fails, s3 ok] without a transaction, on a
\* store that held neither effect: s1's effect is there, s3's is not.
C2_Witness ==
  /\ pgReturned /\ ~pgGroup.UseTransaction
  /\ Len(pgGroup.Statements) = 3
  /\ pgFirstFailing(2)
  /\ ~pgStatementFails(3)
  /\ pgPre.store = {}
  /\ pgGroup.Statements[1].eff \in store
  /\ pgGroup.Statements[3].eff \notin store
  /\ pgOut.ret = ErrStatement

\* C3: the IDs Versions() reports are exactly the IDs whose most recent Migrate
\* call that returned no error had direction Up.
C3_VersionsAreLastSuccessfulUp ==
  \A id \in DriverIDs :
    (\E i \in 1..Len(Driver_Versions(schema_migration)) :
        Driver_Versions(schema_migration)[i] = id)
      <=> pgLastOk[id] = Up

\* Some step of the last call failed: Begin, the Exec of a statement, the Exec
\* of the version statement, or Commit.
pgBeginFailed == pgGroup.UseTransaction /\ ~pgOut.began
pgStatementFailed ==
  /\ pgOut.attempted # <<>>
  /\ pgStatementFails(pgOut.attempted[Len(pgOut.attempted)])
pgVersionFailed ==
  /\ pgOut.versionAttempted
  /\ VersionExecFails(pgPre.schema_migration, insertVersion(pgCall.migration),
                      pgCall.migration.ID, pgCall.ctx,
                      pgBase + Len(pgGroup.Statements) + 1)
pgCommitFailed == pgOut.commitAttempted /\ ~pgOut.committed
pgSomeStepFailed ==
  pgBeginFailed \/ pgStatementFailed \/ pgVersionFailed \/ pgCommitFailed

\* C4: Migrate returns a non-nil error whenever a step of the call failed
\* (Begin, a statement, the version update, Commit), and nil only when every
\* step succeeded.
C4_NoErrorSwallowed ==
  pgReturned => (pgOut.ret # ErrNil <=> pgSomeStepFailed)

\* ------------------------------------------------- claims on the Executor
\* the applied set after the first k items of plan, each taking effect
RECURSIVE EffectOf(_, _, _)
EffectOf(ids, plan, k) ==
  IF k = 0 THEN ids
  ELSE IF plan[k].Direction = Up THEN EffectOf(ids, plan, k - 1) \cup {plan[k].ID}
       ELSE EffectOf(ids, plan, k - 1) \ {plan[k].ID}

execFirstError(k) ==
  /\ k \in 1..Len(execCalls)
  /\ execCalls[k].ret \notin {ErrNil, Panic}
  /\ \A j \in 1..(k - 1) : execCalls[j].ret = ErrNil

execDrift == Range(execPre) \ CatalogIDs(execRun.catalog) # {}

\* C8: for either target, when Versions() holds an ID absent from the catalog
\* Plan fails with UnknownMigration, plans nothing, and no Driver.Migrate call
\* follows.
C8_DriftDetected ==
  (execPc # "idle" /\ execDrift)
    => /\ execRun.err = ErrUnknownMigration
       /\ execRun.plan = <<>>
       /\ execCalls = <<>>
       /\ applied = execPre

\* C8 witness: drift in a run to apply pending migrations of which the catalog
\* holds one.
C8_Witness ==
  /\ execPc = "done"
  /\ execDrift
  /\ execRun.target = ApplyPending
  /\ CatalogIDs(execRun.catalog) \ Range(execPre) # {}
  /\ execRun.err = ErrUnknownMigration

\* what Plan(rollback N) selects: nothing once drift has halted planning
execSelected ==
  IF execRun.target.kind = "rollback" /\ ~execDrift
  THEN SelectRollback(SortCatalog(execRun.catalog), SortDesc(Range(execPre)), execRun.target.n)
  ELSE <<>>

\* C9: when a migration selected by Plan(rollback N), at any position of the
\* selection, has an empty Down block, the plan fails with NoRollbackAvailable
\* before the first Driver.Migrate call: the applied list is unchanged.
C9_NoRollbackBeforeMutation ==
  (execPc # "idle" /\ \E i \in 1..Len(execSelected) : ~HasDown(execSelected[i]))
    => /\ execRun.err = ErrNoRollbackAvailable
       /\ execRun.plan = <<>>
       /\ execCalls = <<>>
       /\ applied = execPre

\* C9 witness: the first selected migration has a Down block, the second has
\* none.
C9_Witness ==
  /\ execPc = "done"
  /\ Len(execSelected) >= 2
  /\ HasDown(execSelected[1])
  /\ ~HasDown(execSelected[2])
  /\ execRun.err = ErrNoRollbackAvailable

planIDs(plan) == [i \in 1..Len(plan) |-> plan[i].ID]
planCatalogIDs == CatalogIDs(planIn.catalog)
planMigration(id) == CHOOSE m \in Range(planIn.catalog) : m.ID = id

\* C6: for an applied set that is a subset of the catalog, with or without
\* gaps, Plan(apply pending) returns exactly one Up item for each catalog ID not
\* applied and no other, in strictly ascending ID order; for catalog A<B<C with
\* nothing applied it returns [Up(A), Up(B), Up(C)].
C6_ApplyPending ==
  (planOut.set /\ planIn.target = ApplyPending /\ planIn.appliedIDs \subseteq planCatalogIDs)
    => /\ planOut.err = ErrNil
       /\ \A i \in 1..Len(planOut.plan) :
            planOut.plan[i] = Planned(planMigration(planOut.plan[i].ID), Up)
       /\ \A i, j \in 1..Len(planOut.plan) :
            i < j => planOut.plan[i].ID < planOut.plan[j].ID
       /\ Range(planIDs(planOut.plan)) = planCatalogIDs \ planIn.appliedIDs
       /\ (planCatalogIDs = {1, 2, 3} /\ planIn.appliedIDs = {})
            => planIDs(planOut.plan) = <<1, 2, 3>>

\* C6 witness: a catalog given out of order, with a gap: 2 is applied, 1 is not.
C6_Witness ==
  /\ planOut.set /\ planIn.target = ApplyPending
  /\ planIDs(planIn.catalog) = <<3, 1, 2>>
  /\ planIn.appliedIDs = {2}
  /\ planIDs(planOut.plan) = <<1, 3>>

\* the n greatest applied IDs, greatest first (all of them when fewer than n)
GreatestApplied(appliedIDs, n) ==
  SubSeq(SortDesc(appliedIDs), 1, IF n < Cardinality(appliedIDs) THEN n ELSE Cardinality(appliedIDs))

planIsRollbackOfGreatest ==
  /\ planIDs(planOut.plan) = GreatestApplied(planIn.appliedIDs, planIn.target.n)
  /\ \A i \in 1..Len(planOut.plan) : planOut.plan[i].Direction = Down

\* C7 as stated: for every catalog, every applied set and every N,
\* Plan(rollback N) returns Down items for the N greatest applied IDs (all of
\* them when fewer are applied), in strictly descending ID order.
C7_RollbackAlways ==
  (planOut.set /\ planIn.target.kind = "rollback") => planIsRollbackOfGreatest

\* C7 amended: the same, for every catalog that holds every applied ID and in
\* which each of the N greatest applied migrations has a non-empty Down block;
\* each item is the catalog's migration.
C7_Rollback ==
  (/\ planOut.set /\ planIn.target.kind = "rollback"
   /\ planIn.appliedIDs \subseteq planCatalogIDs
   /\ \A id \in Range(GreatestApplied(planIn.appliedIDs, planIn.target.n)) :
        HasDown(planMigration(id)))
    => /\ planOut.err = ErrNil
       /\ planIsRollbackOfGreatest
       /\ \A i \in 1..Len(planOut.plan) :
            planOut.plan[i] = Planned(planMigration(planOut.plan[i].ID), Down)
       /\ \A i, j \in 1..Len(planOut.plan) :
            i < j => planOut.plan[i].ID > planOut.plan[j].ID

\* C7 witness: three applied, catalog out of order, rollback 2 returns
\* [Down(3), Down(2)].
C7_Witness ==
  /\ planOut.set /\ planIn.target = Rollback(2)
  /\ planIDs(planIn.catalog) = <<2, 3, 1>>
  /\ planIn.appliedIDs = {1, 2, 3}
  /\ planOut.err = ErrNil
  /\ planIDs(planOut.plan) = <<3, 2>>
  /\ planOut.plan[1].Direction = Down

\* C11: for a migration with a non-empty Down block whose ID is not in the
\* version record, Migrate Up and then Migrate Down, both returning nil, leave
\* Versions() equal to what it returned before the Up call.
C11_RoundTrip ==
  (/\ trip.set
   /\ trip.migration.ID \notin Range(trip.before)
   /\ trip.upRet = ErrNil
   /\ trip.downRet = ErrNil)
  => trip.after = trip.before

\* a sequence is sorted from greatest to least
IsDescending(seq) == \A i, j \in 1..Len(seq) : i < j => seq[i] > seq[j]

\* C12 as stated: Versions() of the postgres Driver and of the mockDriver both
\* return the applied IDs sorted from greatest to least.
C12_VersionsDescending ==
  /\ IsDescending(Driver_Versions(schema_migration))
  /\ IsDescending(mockDriver_Versions(applied))

\* C12 amended: Versions() of the postgres Driver returns the applied IDs sorted
\* from greatest to least; Versions() of the mockDriver returns them in the order
\* they were recorded, the ID an Up has just recorded being last whatever its
\* value.
C12_PostgresDescending ==
  /\ IsDescending(Driver_Versions(schema_migration))
  /\ Range(Driver_Versions(schema_migration)) = schema_migration
  /\ (/\ mockCall.set
      /\ mockCall.ret = ErrNil
      /\ mockCall.migration.Direction = Up
      /\ mockCall.migration.ID \notin Range(mockCall.pre))
     => LET v == mockDriver_Versions(applied)
        IN v # <<>> /\ v[Len(v)] = mockCall.migration.ID

C12_Witness ==
  /\ Driver_Versions(schema_migration) = <<2, 1>>
  /\ mockDriver_Versions(applied) = <<1, 2>>
  /\ mockCall.set /\ mockCall.migration.ID = 2 /\ mockCall.pre = <<1>>

\* ctx was cancelled before one of the calls a Migrate in a transaction makes
\* with it: Begin, a statement, the version update, Commit
pgCancelledInTransaction ==
  /\ pgReturned
  /\ pgGroup.UseTransaction
  /\ pgCall.ctx.cancelAt < Len(pgGroup.Statements) + 3

\* C13: a Migrate of a UseTransaction=true group whose ctx is cancelled before
\* Begin, between statements, before the version update or before Commit leaves
\* the store and the version table as they were before the call.
C13_CancelLeavesStoreUnchanged ==
  pgCancelledInTransaction
  => /\ store = pgPre.store
     /\ schema_migration = pgPre.schema_migration

\* ctx cancelled before Commit: both statements and the INSERT ran in the
\* transaction, and nothing of them is in the store.
C13_Witness ==
  /\ pgCancelledInTransaction
  /\ pgCall.migration.Direction = Up
  /\ pgOut.attempted = <<1, 2>>
  /\ pgOut.versionAttempted /\ pgOut.commitAttempted /\ ~pgOut.committed
  /\ pgCall.ctx.cancelAt = Len(pgGroup.Statements) + 2
  /\ pgCall.migration.ID \notin pgPre.schema_migration
  /\ pgEffects(2) \cap pgPre.store = {}
  /\ store = pgPre.store /\ schema_migration = pgPre.schema_migration

\* every statement of the group ran without error and the version update failed
pgOnlyVersionFailed ==
  /\ pgReturned
  /\ pgOut.versionAttempted
  /\ Len(pgOut.attempted) = Len(pgGroup.Statements)
  /\ pgVersionFailed

\* C14: when every statement succeeds and the version update fails, Migrate
\* returns the version-update error, not the statement error; without a
\* transaction the statements' effects stay and the version table is unchanged,
\* with a transaction store and version table are as before the call.
C14_VersionUpdateFailure ==
  pgOnlyVersionFailed
  => /\ pgOut.ret = ErrVersions
     /\ pgOut.ret # ErrStatement
     /\ schema_migration = pgPre.schema_migration
     /\ store = IF pgGroup.UseTransaction
                THEN pgPre.store
                ELSE pgPre.store \cup pgEffects(Len(pgGroup.Statements))

\* Up of an ID already recorded, no transaction: the statement's effect is new
\* in the store, the version table is as before.
C14_Witness ==
  /\ pgOnlyVersionFailed
  /\ ~pgGroup.UseTransaction
  /\ pgCall.migration.Direction = Up
  /\ pgCall.migration.ID \in pgPre.schema_migration
  /\ pgCall.ctx.cancelAt > Len(pgGroup.Statements)
  /\ pgOut.ret = ErrVersions
  /\ store # pgPre.store
  /\ schema_migration = pgPre.schema_migration

\* the IDs each driver reports
pgMembers == Range(Driver_Versions(schema_migration))
mockMembers == Range(mockDriver_Versions(applied))

\* the call that returned on both drivers had its group and met no cancelled
\* ctx, and both drivers reported the same IDs before it
bothUncancelledCall ==
  /\ pgPc = "returned" /\ mockCall.set
  /\ ~pgGroup.nil
  /\ pgCall.ctx.cancelAt >= Len(pgGroup.Statements) + (IF pgGroup.UseTransaction THEN 3 ELSE 1)
  /\ pgPre.schema_migration = Range(mockCall.pre)

bothPlainCall ==
  /\ bothUncancelledCall
  /\ \A i \in 2..Len(pgGroup.Statements) : ~pgGroup.Statements[i].bad

newCalls == IF newOut.op = "New" THEN Len(NewSteps) ELSE Len(NewSteps) - 1

\* C16: every construction of a postgres Driver whose ctx is not cancelled
\* succeeds, whether the version table was absent or present and whatever rows
\* it held; no construction fails because the table exists, none changes the
\* rows, and on a store that had no table Versions() is empty afterwards.
C16_InitIdempotent ==
  newOut.set
  => /\ newOut.ret # ErrTableExists
     /\ schema_migration = newOut.rowsBefore
     /\ newOut.ctx.cancelAt >= newCalls => newOut.ret = ErrNil
     /\ newOut.ret = ErrNil
        => /\ pgTable
           /\ ~newOut.tableBefore => Driver_Versions(schema_migration) = <<>>

\* a second Driver constructed on a store whose table holds two versions
C16_Witness ==
  /\ newOut.set /\ newOut.ret = ErrNil
  /\ newOut.tableBefore
  /\ \E c \in Conns : c # newOut.conn /\ pgConn[c] \in {"driver", "shared"}
  /\ Driver_Versions(schema_migration) = <<2, 1>>

\* C20: no open connection is without a holder: each is held by a Driver that
\* was returned or by the caller who opened it.
C20_NoLostConnection == \A c \in Conns : pgConn[c] # "lost"

mockID == mockCall.migration.ID
mockWithout(list, id) == SelectSeq(list, LAMBDA x : x # id)

\* C17: a Migrate of the mockDriver changes only the entry of its ID: Up that
\* returns nil appends the ID at the end when it was absent and changes nothing
\* when it was there; Down that returns nil takes the ID out when it was there
\* and changes nothing when it was absent; the other IDs keep their order; a
\* Migrate that returns an error leaves the list as it was.
C17_MockFrame ==
  (mockCall.set /\ mockCall.ret # Panic)
  => IF mockCall.ret # ErrNil THEN applied = mockCall.pre
     ELSE IF mockCall.migration.Direction = Up
          THEN IF mockID \in Range(mockCall.pre)
               THEN applied = mockCall.pre
               ELSE applied = Append(mockCall.pre, mockID)
          ELSE IF mockID \in Range(mockCall.pre)
               THEN applied = mockWithout(mockCall.pre, mockID)
               ELSE applied = mockCall.pre

\* Down of the first of three entries: the two left keep their order.
C17_Witness ==
  /\ mockCall.set /\ mockCall.ret = ErrNil
  /\ mockCall.migration.Direction = Down
  /\ mockCall.pre = <<1, 3, 2>> /\ mockID = 1
  /\ applied = <<3, 2>>

\* C18: neither driver reports an ID twice, whatever calls were made.
C18_NoDuplicates ==
  /\ LET v == mockDriver_Versions(applied)
     IN \A i, j \in 1..Len(v) : i # j => v[i] # v[j]
  /\ LET v == Driver_Versions(schema_migration)
     IN \A i, j \in 1..Len(v) : i # j => v[i] # v[j]

\* Up of an ID both drivers already hold has returned.
C18_Witness ==
  /\ pgPc = "returned" /\ mockCall.set
  /\ pgCall.migration.Direction = Up
  /\ pgCall.migration.ID = 1
  /\ 1 \in pgPre.schema_migration /\ 1 \in Range(mockCall.pre)
  /\ mockCall.ret = ErrNil
  /\ mockDriver_Versions(applied) = <<2, 1>>
  /\ Driver_Versions(schema_migration) = <<2, 1>>

\* C19: a Migrate with Direction Down on a migration without a Down block
\* returns an error to the caller in both drivers, never panics, and leaves
\* the store, the version table and the mock's list as they were.
C19_DownWithoutDownBlock ==
  (/\ pgPc = "returned" /\ mockCall.set
   /\ pgCall.migration.Direction = Down
   /\ pgCall.migration.Down.nil)
  => /\ pgOut.ret \notin {ErrNil, Panic}
     /\ mockCall.ret \notin {ErrNil, Panic}
     /\ store = pgPre.store
     /\ schema_migration = pgPre.schema_migration
     /\ applied = mockCall.pre

====
